---- MODULE Spec2Model ----
(***************************************************************************)
(* Model of the go-mruby binding vendored in go-mruby-template:            *)
(*   - value.go : MrbValue.Call / CallBlock / call, Exception, String      *)
(*   - main.go  : the example program                                      *)
(*   - Hash     : the hash wrapper exercised by TestHash                    *)
(* The interpreter itself (the C library) is the environment: a method     *)
(* call either raises, which stores a fresh exception object in the        *)
(* state's exc field, or returns a C value and leaves exc alone.           *)
(***************************************************************************)
EXTENDS Integers, Sequences, FiniteSets, TLC

\* ---- bounds --------------------------------------------------------------
MaxArgs == 2        \* longest argument list passed to Call / CallBlock
MaxExc == 2         \* number of exception objects the interpreter may create

\* ---- value domains -------------------------------------------------------
\* to_s of an exception object (the empty message included)
Messages == {"", "boom"}
\* what a host may pass as a Value: a nil interface, Nil, an Int, a String,
\* or an *MrbValue holding a Proc
ArgKinds == {"nilValue", "Nil", "Int", "String", "Proc"}
\* C values a method may return
RetIds == {1, 2}
\* what the interpreter does with one method call: return a C value, or
\* raise an exception whose to_s is msg
Outcomes == [raises : {FALSE}, msg : {""}, ret : RetIds]
            \cup [raises : {TRUE}, msg : Messages, ret : {0}]

\* C.mrb_value
ObjValue(i) == [tt |-> "object", id |-> i]
ExcValue(i) == [tt |-> "exception", id |-> i]
NoCValue == [tt |-> "none", id |-> 0]

\* *MrbValue : nil pointer or a wrapper around a C value
NilPtr == [isNil |-> TRUE, value |-> NoCValue]
newValue(v) == [isNil |-> FALSE, value |-> v]

\* error interface values
NilErr == [kind |-> "nil", value |-> NilPtr, cachedString |-> ""]
ArgsErr == [kind |-> "errorString", value |-> NilPtr,
            cachedString |-> "args must be non-empty and have a proc at the end"]

\* MrbValue.String on an exception object of a live state: its to_s
MrbValueString(v, objs) == objs[v.value.id]

\* newExceptionValue: wrap state.exc and cache its string
newExceptionValue(e, objs) ==
    [kind |-> "Exception", value |-> newValue(ExcValue(e)),
     cachedString |-> MrbValueString(newValue(ExcValue(e)), objs)]

VARIABLES
    prog,       \* the program that runs: a host of value.go, main, or a Hash user
    exc,        \* state.exc : 0 (nil) or the id of the pending exception object
    excObjs,    \* exception objects created so far: id -> to_s
    closed,     \* the state has been closed
    held,       \* *Exception values the host has received
    last,       \* the most recent operation and what it returned
    mainPc,     \* main: position in main.go
    mainMrb,    \* main: "none", "open" or "closed"
    mainDefers, \* main: deferred calls, last registered first
    mainRes,    \* main: (result, err) of LoadString
    mainCloses, \* main: number of times Close ran
    mainLate,   \* main: an operation touched the interpreter after Close
    mainInspected, \* main: result.String() was evaluated
    mainOut,    \* main: what the process wrote (result line or panic message)
    hash,       \* Hash: key -> stored value, Absent when the key is missing
    setLog,     \* Hash: key -> value of the latest Set (initial value if none)
    current,    \* Hash: like setLog, but a Delete resets the key to Absent
    hlast       \* Hash: the most recent Hash operation and its result

hostVars == <<exc, excObjs, closed, held, last>>
mainVars == <<mainPc, mainMrb, mainDefers, mainRes, mainCloses, mainLate,
              mainInspected, mainOut>>
hashVars == <<hash, setLog, current, hlast>>
vars == <<prog, hostVars, mainVars, hashVars>>

NoOp == [op |-> "none", args |-> <<>>, raised |-> FALSE, outcome |-> "none",
         val |-> NilPtr, err |-> NilErr, cret |-> NoCValue,
         converted |-> 0, cstr |-> 0, funcall |-> "none",
         interp |-> FALSE, str |-> "", exception |-> NilErr]

ArgLists == UNION {[1..n -> ArgKinds] : n \in 0..MaxArgs}

\* index of the first nil interface among the arguments, 0 when none:
\* arg.MrbValue on a nil interface is a nil dereference
FirstNil(args) ==
    IF \E i \in 1..Len(args) : args[i] = "nilValue"
    THEN CHOOSE i \in 1..Len(args) :
            /\ args[i] = "nilValue"
            /\ \A j \in 1..(i-1) : args[j] # "nilValue"
    ELSE 0

\* variant of callReturn that keeps the C value next to the error
callReturnKeepsValue(excAfter, cret, objs) ==
    IF excAfter # 0
    THEN [val |-> newValue(cret), err |-> newExceptionValue(excAfter, objs)]
    ELSE [val |-> newValue(cret), err |-> NilErr]

\* the (value, error) pair call returns once the C call is back
callReturn(excAfter, cret, objs) ==
    IF excAfter # 0
    THEN [val |-> NilPtr, err |-> newExceptionValue(excAfter, objs)]
    ELSE [val |-> newValue(cret), err |-> NilErr]

\* MrbValue.call: block = "nilValue" stands for a nil block
call(opname, allArgs, args, block, o) ==
    IF FirstNil(args) # 0
    THEN \* panics while converting the arguments, before the C call
         /\ last' = [NoOp EXCEPT !.op = opname, !.args = allArgs,
                        !.outcome = "panic",
                        !.converted = FirstNil(args) - 1,
                        !.interp = FirstNil(args) > 1]
         /\ UNCHANGED <<exc, excObjs, closed, held>>
    ELSE LET objsAfter == IF o.raises THEN Append(excObjs, o.msg) ELSE excObjs
             excAfter == IF o.raises THEN Len(objsAfter) ELSE exc
             cvalue == IF o.raises THEN ExcValue(excAfter) ELSE ObjValue(o.ret)
             r == callReturn(excAfter, cvalue, objsAfter)
         IN  /\ o.raises => Len(excObjs) < MaxExc
             /\ excObjs' = objsAfter
             /\ exc' = excAfter
             /\ held' = IF r.err.kind = "Exception"
                        THEN held \cup {r.err} ELSE held
             /\ last' = [NoOp EXCEPT !.op = opname, !.args = allArgs,
                            !.raised = o.raises, !.outcome = "return",
                            !.val = r.val, !.err = r.err,
                            !.cret = cvalue,
                            !.converted = Len(args) +
                                 (IF block # "nilValue" THEN 1 ELSE 0),
                            !.cstr = 1,
                            !.funcall = IF block = "nilValue"
                                        THEN "mrb_funcall_argv"
                                        ELSE "mrb_funcall_with_block",
                            !.interp = TRUE]
             /\ UNCHANGED closed

Call(args, o) ==
    /\ prog = "host"
    /\ ~closed
    /\ call("Call", args, args, "nilValue", o)
    /\ UNCHANGED <<prog, mainVars, hashVars>>

\* variant of CallBlock without the check for an empty argument list:
\* an empty list goes on as a call without block
CallBlockNoEmptyCheck(args, o) ==
    /\ prog = "host"
    /\ ~closed
    /\ UNCHANGED <<prog, mainVars, hashVars>>
    /\ IF Len(args) = 0
       THEN call("CallBlock", args, args, "nilValue", o)
       ELSE call("CallBlock", args, SubSeq(args, 1, Len(args) - 1),
                 args[Len(args)], o)

CallBlock(args, o) ==
    /\ prog = "host"
    /\ ~closed
    /\ UNCHANGED <<prog, mainVars, hashVars>>
    /\ IF Len(args) = 0
       THEN /\ last' = [NoOp EXCEPT !.op = "CallBlock", !.args = args,
                           !.outcome = "return", !.err = ArgsErr]
            /\ UNCHANGED <<exc, excObjs, closed, held>>
       ELSE call("CallBlock", args, SubSeq(args, 1, Len(args) - 1),
                 args[Len(args)], o)

Close ==
    /\ prog = "host"
    /\ ~closed
    /\ UNCHANGED <<prog, mainVars, hashVars>>
    /\ closed' = TRUE
    /\ last' = [NoOp EXCEPT !.op = "Close", !.outcome = "return"]
    /\ UNCHANGED <<exc, excObjs, held>>

\* ---- Exception.String / Exception.Error --------------------------------
\* Exception.String: the cached string unless it is empty, else
\* MrbValue.String, which calls into the interpreter.  On a closed state
\* that call reads freed memory: any string, or a crash.
ExceptionStringResults(e, isClosed, objs) ==
    IF e.cachedString # ""
    THEN {[str |-> e.cachedString, interp |-> FALSE, outcome |-> "return"]}
    ELSE IF ~isClosed
         THEN {[str |-> MrbValueString(e.value, objs), interp |-> TRUE,
                outcome |-> "return"]}
         ELSE {[str |-> m, interp |-> TRUE, outcome |-> "return"] :
                    m \in Messages \cup {"<freed>"}}
              \cup {[str |-> "", interp |-> TRUE, outcome |-> "crash"]}

ExceptionString(e) ==
    /\ prog = "host"
    /\ e \in held
    /\ \E r \in ExceptionStringResults(e, closed, excObjs) :
          last' = [NoOp EXCEPT !.op = "String", !.exception = e,
                      !.str = r.str, !.interp = r.interp,
                      !.outcome = r.outcome]
    /\ UNCHANGED <<prog, exc, excObjs, closed, held, mainVars, hashVars>>

\* Exception.Error returns e.String()
ExceptionError(e) ==
    /\ prog = "host"
    /\ e \in held
    /\ \E r \in ExceptionStringResults(e, closed, excObjs) :
          last' = [NoOp EXCEPT !.op = "Error", !.exception = e,
                      !.str = r.str, !.interp = r.interp,
                      !.outcome = r.outcome]
    /\ UNCHANGED <<prog, exc, excObjs, closed, held, mainVars, hashVars>>

\* ---- main.go -------------------------------------------------------------
NoOut == [kind |-> "none", text |-> ""]
NoRes == [val |-> NilPtr, err |-> NilErr]
\* to_s of the values a script may evaluate to
ResultText == <<"Hello from mruby!", "42">>

\* Mrb.LoadString: the value of the script, or the exception it raised
LoadString(o) ==
    IF o.raises
    THEN [val |-> NilPtr, err |-> newExceptionValue(1, <<o.msg>>)]
    ELSE [val |-> newValue(ObjValue(o.ret)), err |-> NilErr]

\* mrb := mruby.NewMrb()
MainNewMrb ==
    /\ prog = "main"
    /\ mainPc = "line9"
    /\ mainMrb' = "open"
    /\ mainPc' = "line10"
    /\ UNCHANGED <<prog, hostVars, hashVars, mainDefers, mainRes, mainCloses,
                   mainLate, mainInspected, mainOut>>

\* variant of line 10 that registers nothing
MainNoDefer ==
    /\ prog = "main"
    /\ mainPc = "line10"
    /\ mainPc' = "line12"
    /\ UNCHANGED <<prog, hostVars, hashVars, mainMrb, mainDefers, mainRes,
                   mainCloses, mainLate, mainInspected, mainOut>>

\* defer mrb.Close()
MainDeferClose ==
    /\ prog = "main"
    /\ mainPc = "line10"
    /\ mainDefers' = <<"Close">> \o mainDefers
    /\ mainPc' = "line12"
    /\ UNCHANGED <<prog, hostVars, hashVars, mainMrb, mainRes, mainCloses,
                   mainLate, mainInspected, mainOut>>

\* result, err := mrb.LoadString(...)
MainLoadString(o) ==
    /\ prog = "main"
    /\ mainPc = "line12"
    /\ mainRes' = LoadString(o)
    /\ mainLate' = (mainLate \/ mainMrb = "closed")
    /\ mainPc' = "line14"
    /\ UNCHANGED <<prog, hostVars, hashVars, mainMrb, mainDefers, mainCloses,
                   mainInspected, mainOut>>

\* if err != nil { panic(err.Error()) }
MainCheckErr ==
    /\ prog = "main"
    /\ mainPc = "line14"
    /\ IF mainRes.err.kind # "nil"
       THEN \E r \in ExceptionStringResults(mainRes.err, mainMrb = "closed",
                                            <<mainRes.err.cachedString>>) :
               /\ mainOut' = [kind |-> "panic", text |-> r.str]
               /\ mainLate' = (mainLate \/ (r.interp /\ mainMrb = "closed"))
               /\ mainPc' = "panicking"
       ELSE /\ mainPc' = "line18"
            /\ UNCHANGED <<mainOut, mainLate>>
    /\ UNCHANGED <<prog, hostVars, hashVars, mainMrb, mainDefers, mainRes,
                   mainCloses, mainInspected>>

\* fmt.Printf("Result: %s\n", result.String())
MainPrint ==
    /\ prog = "main"
    /\ mainPc = "line18"
    /\ mainInspected' = TRUE
    /\ mainLate' = (mainLate \/ mainMrb = "closed")
    /\ mainOut' = [kind |-> "result", text |-> ResultText[mainRes.val.value.id]]
    /\ mainPc' = "returning"
    /\ UNCHANGED <<prog, hostVars, hashVars, mainMrb, mainDefers, mainRes,
                   mainCloses>>

\* leaving main, by return or by panic, runs the deferred calls
MainRunDefer ==
    /\ prog = "main"
    /\ mainPc \in {"returning", "panicking"}
    /\ mainDefers # <<>>
    /\ mainDefers' = Tail(mainDefers)
    /\ mainMrb' = "closed"
    /\ mainCloses' = mainCloses + 1
    /\ mainLate' = (mainLate \/ mainMrb = "closed")
    /\ UNCHANGED <<prog, hostVars, hashVars, mainPc, mainRes, mainInspected,
                   mainOut>>

\* the process ends: normally, or with the panic message (a Go string)
MainExit ==
    /\ prog = "main"
    /\ mainPc \in {"returning", "panicking"}
    /\ mainDefers = <<>>
    /\ mainPc' = IF mainPc = "panicking" THEN "crashed" ELSE "exited"
    /\ UNCHANGED <<prog, hostVars, hashVars, mainMrb, mainDefers, mainRes,
                   mainCloses, mainLate, mainInspected, mainOut>>

\* ---- Hash ----------------------------------------------------------------
Keys == {"foo", "nope"}
Vals == {"bar", "baz"}
Absent == "<absent>"
\* the interpreter's nil value
MrbNil == "<nil>"
NoHashOp == [op |-> "none", key |-> "", val |-> "", goNil |-> TRUE,
             errNil |-> TRUE]
EmptyHash == [k \in Keys |-> Absent]

\* what reading a slot gives: the stored value, the nil value when missing
Lookup(h, k) == IF h[k] = Absent THEN MrbNil ELSE h[k]

\* Hash.Get: mrb_hash_get, wrapped; the error is always nil
HashGet(k) ==
    /\ prog = "hash"
    /\ hlast' = [op |-> "Get", key |-> k, val |-> Lookup(hash, k),
                 goNil |-> FALSE, errNil |-> TRUE]
    /\ UNCHANGED <<prog, hostVars, mainVars, hash, setLog, current>>

\* variant of Hash.Set that does not overwrite a key already present
HashSetKeepsFirst(k, v) ==
    /\ prog = "hash"
    /\ hash' = IF hash[k] = Absent THEN [hash EXCEPT ![k] = v] ELSE hash
    /\ setLog' = [setLog EXCEPT ![k] = v]
    /\ current' = [current EXCEPT ![k] = v]
    /\ hlast' = [op |-> "Set", key |-> k, val |-> v, goNil |-> TRUE,
                 errNil |-> TRUE]
    /\ UNCHANGED <<prog, hostVars, mainVars>>

\* Hash.Set: mrb_hash_set
HashSet(k, v) ==
    /\ prog = "hash"
    /\ hash' = [hash EXCEPT ![k] = v]
    /\ setLog' = [setLog EXCEPT ![k] = v]
    /\ current' = [current EXCEPT ![k] = v]
    /\ hlast' = [op |-> "Set", key |-> k, val |-> v, goNil |-> TRUE,
                 errNil |-> TRUE]
    /\ UNCHANGED <<prog, hostVars, mainVars>>

\* Hash.Delete: mrb_hash_delete_key; a Go nil when the key was missing
HashDelete(k) ==
    /\ prog = "hash"
    /\ hash' = [hash EXCEPT ![k] = Absent]
    /\ current' = [current EXCEPT ![k] = Absent]
    /\ hlast' = [op |-> "Delete", key |-> k, val |-> Lookup(hash, k),
                 goNil |-> (hash[k] = Absent), errNil |-> TRUE]
    /\ UNCHANGED <<prog, hostVars, mainVars, setLog>>

\* ---- the system ----------------------------------------------------------
Init ==
    /\ prog \in {"host", "main", "hash"}
    /\ exc = 0
    /\ excObjs = <<>>
    /\ closed = FALSE
    /\ held = {}
    /\ last = NoOp
    /\ mainPc = "line9"
    /\ mainMrb = "none"
    /\ mainDefers = <<>>
    /\ mainRes = NoRes
    /\ mainCloses = 0
    /\ mainLate = FALSE
    /\ mainInspected = FALSE
    /\ mainOut = NoOut
    /\ hash \in IF prog = "hash" THEN [Keys -> Vals \cup {Absent}]
                ELSE {EmptyHash}
    /\ setLog = hash
    /\ current = hash
    /\ hlast = NoHashOp

Next ==
    \/ \E args \in ArgLists, o \in Outcomes : Call(args, o)
    \/ \E args \in ArgLists, o \in Outcomes : CallBlock(args, o)
    \/ Close
    \/ \E e \in held : ExceptionString(e)
    \/ \E e \in held : ExceptionError(e)
    \/ MainNewMrb
    \/ MainDeferClose
    \/ \E o \in Outcomes : MainLoadString(o)
    \/ MainCheckErr
    \/ MainPrint
    \/ MainRunDefer
    \/ MainExit
    \/ \E k \in Keys : HashGet(k)
    \/ \E k \in Keys, v \in Vals : HashSet(k, v)
    \/ \E k \in Keys : HashDelete(k)

Spec == Init /\ [][Next]_vars

\* ---- properties ----------------------------------------------------------
IsCall == last.op \in {"Call", "CallBlock"}
\* the call got as far as the C function
ReachedInterpreter == IsCall /\ last.funcall # "none"

\* C1: a Call or CallBlock that reaches the interpreter returns
\* (nil, *Exception wrapping state.exc) when state.exc is set after the C
\* call, and (non-nil *MrbValue wrapping the C return value, nil) otherwise;
\* never both non-nil, never both nil.
C1_CallOutcomeShape ==
    ReachedInterpreter =>
        /\ IF exc # 0
           THEN /\ last.val = NilPtr
                /\ last.err.kind = "Exception"
                /\ last.err.value = newValue(ExcValue(exc))
           ELSE /\ last.val = newValue(last.cret)
                /\ last.err = NilErr
        /\ last.val.isNil # (last.err.kind = "nil")

C1_Witness ==
    /\ last.op = "CallBlock"
    /\ last.funcall = "mrb_funcall_with_block"
    /\ last.err.kind = "Exception"
    /\ last.val = NilPtr

\* C2: CallBlock with an empty argument list returns (nil, non-nil error)
\* without converting an argument, allocating a C string or invoking a
\* method, and leaves the interpreter state (exc included) unchanged.
C2_CallBlockEmptyArgs ==
    [][(last'.op = "CallBlock" /\ Len(last'.args) = 0) =>
          /\ last'.val = NilPtr
          /\ last'.err.kind # "nil"
          /\ last'.outcome = "return"
          /\ last'.converted = 0
          /\ last'.cstr = 0
          /\ last'.funcall = "none"
          /\ ~last'.interp
          /\ UNCHANGED <<exc, excObjs, closed, held>>]_vars

C2_Witness ==
    /\ last.op = "CallBlock"
    /\ Len(last.args) = 0
    /\ last.err = ArgsErr
    /\ exc # 0

\* C3: CallBlock whose last argument is not a Proc returns a non-nil error.
C3_CallBlockRequiresProc ==
    (/\ last.op = "CallBlock"
     /\ last.outcome = "return"
     /\ Len(last.args) > 0
     /\ last.args[Len(last.args)] # "Proc") => last.err.kind # "nil"

\* C4: Error() and String() of an Exception return the to_s captured at
\* creation, without calling into the interpreter, whatever happened to the
\* state since, the empty message included.
C4_ExceptionStringCached ==
    last.op \in {"String", "Error"} =>
        /\ last.outcome = "return"
        /\ last.str = excObjs[last.exception.value.value.id]
        /\ ~last.interp

\* C5 as stated: Get(k) returns, with a nil error, the value most recently
\* stored for k by Set (the initial value if k was never Set), whatever Set
\* and Delete operations came before.
C5_GetReturnsLastSet ==
    hlast.op = "Get" =>
        /\ hlast.errNil
        /\ ~hlast.goNil
        /\ hlast.val = Lookup(setLog, hlast.key)

\* C5 amended: Get(k) returns, with a nil error, the value most recently
\* stored for k by Set (the initial value if none) when k was not deleted
\* since, and the nil value when it was.
C5_GetReturnsLastSetUnlessDeleted ==
    hlast.op = "Get" =>
        /\ hlast.errNil
        /\ ~hlast.goNil
        /\ hlast.val = Lookup(current, hlast.key)

C5_Witness ==
    /\ hlast.op = "Get"
    /\ hlast.key = "foo"
    /\ hlast.val = "baz"
    /\ setLog["nope"] # Absent
    /\ current["nope"] = Absent

\* C6: main constructs, loads, inspects and closes in that order; on both
\* paths the state is closed exactly once, nothing touches the interpreter
\* after Close, and on the error path the result is never inspected.
C6_MainLifecycle ==
    /\ ~mainLate
    /\ mainCloses <= 1
    /\ (mainPc \in {"exited", "crashed"} => mainCloses = 1 /\ mainMrb = "closed")
    /\ (mainMrb = "closed" => mainPc \in {"returning", "panicking", "exited", "crashed"})
    /\ (mainMrb = "none" => mainPc = "line9")
    /\ (mainInspected => mainRes.err.kind = "nil" /\ ~mainRes.val.isNil)
    /\ (mainPc \in {"panicking", "crashed"} =>
            mainRes.err.kind # "nil" /\ ~mainInspected /\ mainOut.kind = "panic")
    /\ (mainPc = "exited" => mainInspected)

C6_Witness ==
    /\ mainPc = "crashed"
    /\ mainCloses = 1
    /\ mainRes.err.kind = "Exception"
    /\ mainRes.err.cachedString = ""

\* C7: a call whose method raises nothing returns its value and a nil
\* error, also after an earlier call on the same state returned an
\* Exception.
C7_ErrorFromSameCall ==
    (ReachedInterpreter /\ ~last.raised) =>
        /\ last.err = NilErr
        /\ last.val = newValue(last.cret)

====
